---- MODULE Spec2Model ----
(***************************************************************************)
(* A model of googleanalytics/query.py: the Query builder (clone-on-call   *)
(* builder methods over the wire parameters `raw` and the options `meta`), *)
(* the signature and cacheability of a query, Query.execute with its cache *)
(* and rate limiter, CoreQuery.get (pagination) and Report.append.         *)
(*                                                                         *)
(* Python objects that can be aliased (lists) live on a heap and are       *)
(* referred to by their index; dictionaries are insertion-ordered          *)
(* sequences of key/value pairs; every other value is a tagged record.     *)
(***************************************************************************)
EXTENDS Integers, Sequences, FiniteSets, TLC

VARIABLES
    queries,   \* the Query objects the program holds, by object id
    heap,      \* the list objects, by object id
    last,      \* the last call made: operation, receiver, outcome
    api,       \* the api the queries belong to: its cache
    clock,     \* time.time()
    log,       \* the cache / rate limiter / endpoint operations performed
    runs,      \* the number of executions of a query made so far
    threads    \* concurrent callers of execute, each with its position

vars == <<queries, heap, last, api, clock, log, runs, threads>>

-----------------------------------------------------------------------------
(* Bounds of the model.                                                    *)

\* the number of Query objects the program keeps when it chains builders
MaxQueries == 3
\* the number of entries a list of pending sort entries or groups grows to
MaxEntries == 4

-----------------------------------------------------------------------------
(* Python values: tagged records.                                          *)

None == [t |-> "none"]
\* a str; cj counts how often the string was re-joined character by
\* character (','.join(s) of a str s), which yields a different string
\* whenever s has two characters or more
PyStr(s) == [t |-> "str", s |-> s, cj |-> 0]
PyInt(n) == [t |-> "int", n |-> n]
\* a list of str
PyList(l) == [t |-> "list", l |-> l]

\* Python truthiness of a value
Truthy(v) ==
    CASE v.t = "none" -> FALSE
      [] v.t = "str" -> v.s # ""
      [] v.t = "int" -> v.n # 0
      [] v.t = "list" -> v.l # <<>>
      [] OTHER -> TRUE

-----------------------------------------------------------------------------
(* Python dict: an insertion-ordered sequence of [k, v] pairs.             *)

Keys(d) == {d[i].k : i \in DOMAIN d}
Has(d, k) == k \in Keys(d)
Pos(d, k) == CHOOSE i \in DOMAIN d : d[i].k = k
Get(d, k) == d[Pos(d, k)].v
\* d[k] = v: an existing key keeps its place, a new key goes last
Put(d, k, v) ==
    IF Has(d, k) THEN [d EXCEPT ![Pos(d, k)].v = v]
    ELSE Append(d, [k |-> k, v |-> v])
\* d1 == d2 of two dicts: the same keys with the same values, whatever the
\* insertion order
SameMap(d1, d2) == Keys(d1) = Keys(d2) /\ \A k \in Keys(d1) : Get(d1, k) = Get(d2, k)

-----------------------------------------------------------------------------
(* The column registry (api.columns): an external collaborator that        *)
(* resolves a column name to its wire identifier.                          *)

ColumnId(name) == "ga:" \o name

\* api.columns.serialize(columns, wrap=True): the identifiers of the columns
Serialize(names) == [i \in DOMAIN names |-> ColumnId(names[i])]

\* delimiter.join(strings)
RECURSIVE Join(_, _)
Join(delimiter, strings) ==
    IF strings = <<>> THEN ""
    ELSE IF Len(strings) = 1 THEN strings[1]
    ELSE strings[1] \o delimiter \o Join(delimiter, Tail(strings))

-----------------------------------------------------------------------------
(* Query objects.  A store st = [qs, heap] is threaded through the         *)
(* operators below; the actions read it from and write it to the state.    *)
(* raw holds values: the code never lets two queries share a list of raw   *)
(* (clone and build deep-copy it).  The lists of the options (meta) are    *)
(* objects of the heap, referred to by their index, since the options of a *)
(* clone are a key-by-key copy of the receiver's.                          *)

\* the profile id behind raw['ids']
ProfileId == "12345"

\* Query._lock, the class attribute
_lock == 0

\* the options of a query: the list objects of the pending sort entries and
\* of the pending filter / segment groups (0: key absent), and the limit
\* (-1: key absent)
NoRef == 0
NoLimit == -1
EmptyMeta == [sort |-> NoRef, filters |-> NoRef, segments |-> NoRef, limit |-> NoLimit]

Store == [qs |-> queries, heap |-> heap]

\* Query.__init__ followed by Query._specify(metrics, dimensions):
\* self.meta.update(meta) copies the options key by key, so that a list
\* held in them is shared with the query they came from
\* no report: None
NoReport == [none |-> TRUE]

Query(metrics, dimensions, meta) ==
    [raw |-> << [k |-> "ids", v |-> PyStr("ga:" \o ProfileId)],
                [k |-> "metrics", v |-> PyList(Serialize(metrics))],
                [k |-> "dimensions", v |-> PyList(Serialize(dimensions))] >>,
     meta |-> meta,
     lock |-> [own |-> FALSE, at |-> _lock],
     report |-> NoReport]

\* a clone that is the receiver itself
clone_self(st, i) == [st |-> st, self |-> i]

\* Query.clone: a new query of the same class, made by __init__ from the
\* receiver's options, whose raw is then replaced by a deep copy of the
\* receiver's; gives the store with the new query and the new query's id
clone(st, i) ==
    LET query == [Query(<<>>, <<>>, st.qs[i].meta) EXCEPT !.raw = st.qs[i].raw]
    IN  [st |-> [st EXCEPT !.qs = Append(@, query)], self |-> Len(st.qs) + 1]

-----------------------------------------------------------------------------
(* The outcome of a method body: the store it leaves, and whether it       *)
(* returned or raised.                                                     *)

Ok(st) == [st |-> st, ok |-> TRUE, err |-> ""]
Raise(st, e) == [st |-> st, ok |-> FALSE, err |-> e]

\* utils.immutable, the decorator of the builder methods: the method body
\* runs on a clone of the receiver and the clone is returned.  When the
\* body raises, the clone is dropped with the lists only it referred to;
\* what the body did to lists shared with other queries stays done.
immutable(Body(_, _), st, i) ==
    LET c == clone(st, i)
        r == Body(c.st, c.self)
    IN  IF r.ok
        THEN [st |-> r.st, ok |-> TRUE, err |-> "", res |-> c.self]
        ELSE [st |-> [qs |-> SubSeq(r.st.qs, 1, Len(st.qs)),
                      heap |-> SubSeq(r.st.heap, 1, Len(st.heap))],
              ok |-> FALSE, err |-> r.err, res |-> 0]

-----------------------------------------------------------------------------
(* The builder methods.  Each body takes the store and the query `self` it *)
(* runs on and gives its outcome.                                          *)

SetRaw(st, self, k, v) == [st EXCEPT !.qs[self].raw = Put(@, k, v)]

\* Query._specify: the serialized columns are appended to the lists held in
\* raw (both keys exist since __init__); a raw value that is no list has no
\* extend
_specify(st, self, metrics, dimensions) ==
    LET m == Get(st.qs[self].raw, "metrics")
        d == Get(st.qs[self].raw, "dimensions")
    IN  IF m.t # "list" THEN Raise(st, "AttributeError")
        ELSE LET st1 == SetRaw(st, self, "metrics", PyList(m.l \o Serialize(metrics)))
             IN  IF d.t # "list" THEN Raise(st1, "AttributeError")
                 ELSE Ok(SetRaw(st1, self, "dimensions", PyList(d.l \o Serialize(dimensions))))

\* Query.query, Query.metrics, Query.dimensions
query(st, self, metrics, dimensions) == _specify(st, self, metrics, dimensions)
metrics(st, self, columns) == _specify(st, self, columns, <<>>)
dimensions(st, self, columns) == _specify(st, self, <<>>, columns)

\* Query.set(key, value, **kwargs): key is None, a str or a dict of
\* properties ([t |-> "dict", d |-> pairs]); the values are no Column
\* objects, which serialize(greedy=False) leaves alone
RECURSIVE PutAll(_, _)
PutAll(raw, properties) ==
    IF properties = <<>> THEN raw
    ELSE PutAll(Put(raw, Head(properties).k, Head(properties).v), Tail(properties))

DictV(d) == [t |-> "dict", d |-> d]
TruthyArg(v) == IF v.t = "dict" THEN v.d # <<>> ELSE Truthy(v)

set(st, self, key, value, kwargs) ==
    IF TruthyArg(key) /\ Truthy(value)
    THEN Ok(SetRaw(st, self, key.s, value))
    ELSE IF TruthyArg(key) \/ kwargs # <<>>
    THEN LET properties == IF TruthyArg(key) THEN key ELSE DictV(kwargs)
         IN  IF properties.t # "dict" THEN Raise(st, "AttributeError")
             ELSE Ok([st EXCEPT !.qs[self].raw = PutAll(@, properties.d)])
    ELSE Raise(st, "ValueError")

\* self.meta.setdefault(key, []): the list the options hold under key, a
\* new empty one when the key is absent
SetDefault(st, self, key) ==
    IF st.qs[self].meta[key] # NoRef THEN st
    ELSE [qs |-> [st.qs EXCEPT ![self].meta[key] = Len(st.heap) + 1],
          heap |-> Append(st.heap, <<>>)]

\* the loop of Query.sort over its arguments, each a Column object
\* ([kind |-> "column", id]), a str of `dashes` leading '-' before a column
\* name ([kind |-> "string", dashes, name]) or anything else.  The local
\* `descending` is assigned for a str only: it is "unbound" until then.
RECURSIVE SortLoop(_, _, _, _)
SortLoop(sorts, columns, descending, option) ==
    IF columns = <<>> THEN [sorts |-> sorts, ok |-> TRUE, err |-> ""]
    ELSE LET column == Head(columns)
         IN  IF column.kind = "column"
             THEN IF descending = "unbound"
                  THEN [sorts |-> sorts, ok |-> FALSE, err |-> "UnboundLocalError"]
                  ELSE SortLoop(Append(sorts, (IF descending = "yes" THEN "-" ELSE "") \o column.id),
                                Tail(columns), descending, option)
             ELSE IF column.kind = "string"
             THEN LET desc == IF column.dashes > 0 \/ option THEN "yes" ELSE "no"
                  IN  SortLoop(Append(sorts, (IF desc = "yes" THEN "-" ELSE "") \o ColumnId(column.name)),
                               Tail(columns), desc, option)
             ELSE [sorts |-> sorts, ok |-> FALSE, err |-> "ValueError"]

\* Query.sort(*columns, descending=option)
sort(st, self, columns, option) ==
    LET st1 == SetDefault(st, self, "sort")
        sorts == st1.qs[self].meta.sort
        loop == SortLoop(st1.heap[sorts], columns, "unbound", option)
        st2 == [st1 EXCEPT !.heap[sorts] = loop.sorts]
    IN  IF ~loop.ok THEN Raise(st2, loop.err)
        ELSE Ok(SetRaw(st2, self, "sort", PyStr(Join(",", loop.sorts))))

-----------------------------------------------------------------------------
(* The selector compiler.                                                  *)

\* the comparison methods of a Column (an external collaborator) and the
\* operator each writes
Selectors == [eq |-> "==", neq |-> "!=", gt |-> ">", lt |-> "<", contains |-> "=@"]

\* column.method(value): the compiled expression
Selector(column, method, value) == ColumnId(column) \o Selectors[method] \o value

\* a values-to-list that keeps the first value of a list only
ValuesOf_first(values) ==
    IF values.t = "list" THEN SelectSeq(values.l, LAMBDA v : v = Head(values.l)) ELSE <<values.v>>

\* the values of a selection key: a list or tuple as it is, anything else
\* wrapped into a list of one
ValuesOf(values) == IF values.t = "list" THEN values.l ELSE <<values.v>>

\* select(source, selection): selection is the keyword mapping in its
\* order, each key a column name with the method that follows '__' ("" when
\* the key has no '__')
RECURSIVE select(_)
select(selection) ==
    IF selection = <<>> THEN [ok |-> TRUE, selections |-> <<>>, err |-> ""]
    ELSE LET key == Head(selection)
             method == IF key.method = "" THEN "eq" ELSE key.method
             values == ValuesOf(key.values)
             rest == select(Tail(selection))
         IN  IF method \notin DOMAIN Selectors
             THEN [ok |-> FALSE, selections |-> <<>>, err |-> "ValueError"]
             ELSE IF ~rest.ok THEN rest
             ELSE [ok |-> TRUE, err |-> "",
                   selections |-> [n \in DOMAIN values |-> Selector(key.column, method, values[n])]
                                  \o rest.selections]

\* utils.paste(rows, ',', ';'): each row joined by ',', the rows by ';'
paste(rows) == Join(";", [n \in DOMAIN rows |-> Join(",", rows[n])])

\* a filter that takes the raw value when it has both
filter_value_first(st, self, value, selection) ==
    LET st1 == SetDefault(st, self, "filters")
        filters == st1.qs[self].meta.filters
        st2 == [st1 EXCEPT !.heap[filters] = Append(@, <<value.s>>)]
    IN  IF Truthy(value)
        THEN Ok(SetRaw(st2, self, "filters", PyStr(paste(st2.heap[filters]))))
        ELSE Raise(st1, "ValueError")

\* Query.filter(value, **selection); value is None or a str.  (A call with
\* neither appends None as a group; the calls made here give one of them.)
filter(st, self, value, selection) ==
    LET st1 == SetDefault(st, self, "filters")
        filters == st1.qs[self].meta.filters
        compiled == select(selection)
        finish(group) ==
            LET st2 == [st1 EXCEPT !.heap[filters] = Append(@, group)]
            IN  Ok(SetRaw(st2, self, "filters", PyStr(paste(st2.heap[filters]))))
    IN  IF Truthy(value) /\ selection # <<>> THEN Raise(st1, "ValueError")
        ELSE IF Truthy(value) THEN finish(<<value.s>>)
        ELSE IF ~compiled.ok THEN Raise(st1, compiled.err)
        ELSE finish(compiled.selections)

\* SCOPES of CoreQuery.segment
SCOPES == [hits |-> "perHit", sessions |-> "perSession", users |-> "perUser"]

\* api.segments.serialize(value): an external collaborator; a raw segment
\* expression is passed on as it is
SerializeSegment(value) == value

\* a join that keeps the empty parts
NonEmpty_all(parts) == parts

\* '::'.join(filter(None, parts)): the parts that are not empty, joined
NonEmpty(parts) == SelectSeq(parts, LAMBDA part : part # "")

\* CoreQuery.segment(value, scope, metric_scope, **selection); value, scope
\* and metric_scope are "" when not given.  (As for filter, the calls made
\* here give a value or a selection.)
segment(st, self, value, scope, metric_scope, selection) ==
    LET st1 == SetDefault(st, self, "segments")
        segments == st1.qs[self].meta.segments
        compiled == select(selection)
        scoped == IF metric_scope # "" THEN SCOPES[metric_scope] ELSE ""
        finish(group) ==
            LET st2 == [st1 EXCEPT !.heap[segments] = Append(@, group)]
            IN  Ok(SetRaw(st2, self, "segment", PyStr(paste(st2.heap[segments]))))
    IN  IF value # "" /\ selection # <<>> THEN Raise(st1, "ValueError")
        ELSE IF value # "" THEN finish(<<SerializeSegment(value)>>)
        ELSE IF scope = "" THEN Raise(st1, "ValueError")
        ELSE IF metric_scope # "" /\ metric_scope \notin DOMAIN SCOPES THEN Raise(st1, "KeyError")
        ELSE IF ~compiled.ok THEN Raise(st1, compiled.err)
        ELSE finish([n \in DOMAIN compiled.selections |->
                        Join("::", NonEmpty(<<scope, "condition", scoped, compiled.selections[n]>>))])

-----------------------------------------------------------------------------
(* Precision, granularity, date range, limits.                             *)

PRECISION_LEVELS == <<"FASTER", "DEFAULT", "HIGHER_PRECISION">>
GRANULARITY_LEVELS == <<"year", "month", "week", "day", "hour">>
GRANULARITY_DIMENSIONS == <<"ga:year", "ga:yearMonth", "ga:yearWeek", "ga:date", "ga:dateHour">>

\* tuple[n] of Python: n counts from 0, a negative n from the end
InRange(tuple, n) == -Len(tuple) <= n /\ n < Len(tuple)
Index(tuple, n) == tuple[IF n < 0 THEN Len(tuple) + n + 1 ELSE n + 1]
IndexOf(tuple, x) == (CHOOSE n \in DOMAIN tuple : tuple[n] = x) - 1
Contains(tuple, x) == \E n \in DOMAIN tuple : tuple[n] = x

\* CoreQuery.precision(precision): an int or a str
precision(st, self, p) ==
    IF p.t = "int" /\ ~InRange(PRECISION_LEVELS, p.n) THEN Raise(st, "IndexError")
    ELSE LET level == IF p.t = "int" THEN Index(PRECISION_LEVELS, p.n) ELSE p.s
         IN  IF ~Contains(PRECISION_LEVELS, level) THEN Raise(st, "ValueError")
             ELSE IF level # "DEFAULT" THEN Ok(SetRaw(st, self, "samplingLevel", PyStr(level)))
             ELSE Ok(st)

\* an interval that puts the granularity dimension last
interval_last(st, self, granularity) ==
    LET d == Get(st.qs[self].raw, "dimensions")
    IN  IF granularity.t # "str" \/ ~Contains(GRANULARITY_LEVELS, granularity.s)
        THEN Raise(st, "ValueError")
        ELSE Ok(SetRaw(st, self, "dimensions",
                       PyList(d.l \o <<Index(GRANULARITY_DIMENSIONS,
                                             IndexOf(GRANULARITY_LEVELS, granularity.s))>>)))

\* CoreQuery.interval(granularity): an int or a str
interval(st, self, granularity) ==
    LET named == granularity.t = "str"
        d == Get(st.qs[self].raw, "dimensions")
    IN  IF named /\ ~Contains(GRANULARITY_LEVELS, granularity.s) /\ granularity.s # "lifetime"
        THEN Raise(st, "ValueError")
        \* 'lifetime' is passed on as it is, and a tuple takes no str index
        ELSE IF named /\ granularity.s = "lifetime" THEN Raise(st, "TypeError")
        ELSE LET g == IF named THEN IndexOf(GRANULARITY_LEVELS, granularity.s) ELSE granularity.n
             IN  IF ~InRange(GRANULARITY_DIMENSIONS, g) THEN Raise(st, "IndexError")
                 ELSE IF d.t # "list" THEN Raise(st, "AttributeError")
                 ELSE Ok(SetRaw(st, self, "dimensions", PyList(<<Index(GRANULARITY_DIMENSIONS, g)>> \o d.l)))

\* utils.date: the relative date expressions, and the start and stop of a
\* range given without a duration (stop "" when omitted: the range ends today)
RelativeDates == {"today", "yesterday", "30daysAgo"}
is_relative(datestring) == datestring \in RelativeDates
DateRange(start, stop) == <<start, IF stop = "" THEN "today" ELSE stop>>

\* CoreQuery.range(start, stop)
range(st, self, start, stop) ==
    LET dates == DateRange(start, stop)
    IN  Ok(SetRaw(SetRaw(st, self, "start_date", PyStr(dates[1])),
                  self, "end_date", PyStr(dates[2])))

\* a step that caps the number of results as limit does
step_capping(st, self, maximum) ==
    Ok(SetRaw([st EXCEPT !.qs[self].meta.limit = maximum], self, "max_results", PyInt(maximum)))

\* CoreQuery.step(maximum)
step(st, self, maximum) == Ok(SetRaw(st, self, "max_results", PyInt(maximum)))

\* CoreQuery.limit(*_range)
limit(st, self, _range) ==
    IF _range = <<>> THEN Raise(st, "IndexError")
    ELSE LET start == IF Len(_range) = 2 THEN _range[1] ELSE 1
             maximum == IF Len(_range) = 2 THEN _range[2] ELSE _range[1]
             st1 == [st EXCEPT !.qs[self].meta.limit = maximum]
         IN  Ok(SetRaw(SetRaw(st1, self, "start_index", PyInt(start)),
                       self, "max_results", PyInt(maximum)))

\* raw.get(key, default)
GetOr(d, k, default) == IF Has(d, k) THEN Get(d, k) ELSE default

\* the page size and the first row of a query when raw does not set them
DefaultMaxResults == 1000
DefaultStartIndex == 1

\* CoreQuery.next
next(st, self) ==
    LET raw == st.qs[self].raw
        size == GetOr(raw, "max_results", PyInt(DefaultMaxResults))
        start == GetOr(raw, "start_index", PyInt(DefaultStartIndex))
    IN  IF size.t # "int" \/ start.t # "int" THEN Raise(st, "TypeError")
        ELSE Ok(SetRaw(st, self, "start_index", PyInt(start.n + size.n)))

\* the granularity shortcuts: self.interval(level).range(start, stop), two
\* decorated calls of which the program keeps the second result
Shortcuts == [hourly |-> "hour", daily |-> "day", weekly |-> "week",
              monthly |-> "month", yearly |-> "year"]

shortcut(st, i, name, start, stop) ==
    LET a == immutable(LAMBDA s, q : interval(s, q, PyStr(Shortcuts[name])), st, i)
        b == immutable(LAMBDA s, q : range(s, q, start, stop), a.st, a.res)
    IN  IF ~a.ok THEN a
        ELSE [b EXCEPT !.st.qs = SubSeq(@, 1, a.res - 1) \o SubSeq(@, a.res + 1, Len(@)),
                       !.res = a.res]

\* CoreQuery.lifetime(start, stop)
lifetime(st, i, start, stop) == immutable(LAMBDA s, q : range(s, q, start, stop), st, i)

-----------------------------------------------------------------------------
(* Building the wire parameters, cacheability, signature.                  *)

\* ','.join(v): of a list its elements joined; of a str its characters
\* joined, another str as soon as it has two characters
JoinValue(v) ==
    IF v.t = "list" THEN PyStr(Join(",", v.l))
    ELSE [v EXCEPT !.cj = IF Len(v.s) >= 2 THEN @ + 1 ELSE @]

\* len(v) of a list or a str
LenValue(v) == IF v.t = "list" THEN Len(v.l) ELSE Len(v.s)

\* the body of Query.build on the dict `raw` it works on (a deep copy of
\* self.raw, or self.raw itself): what the dict is when build returns or
\* raises.  len(None) is a TypeError.
build(raw) ==
    LET raw1 == Put(raw, "metrics", JoinValue(Get(raw, "metrics")))
        d == Get(raw1, "dimensions")
    IN  IF d.t = "none" THEN [ok |-> FALSE, raw |-> raw1, err |-> "TypeError"]
        ELSE IF LenValue(d) > 0
        THEN [ok |-> TRUE, raw |-> Put(raw1, "dimensions", JoinValue(d)), err |-> ""]
        ELSE [ok |-> TRUE, raw |-> Put(raw1, "dimensions", None), err |-> ""]

\* Query.cacheable with `or` in the place of `and`
cacheable_either(raw) ==
    LET start == Has(raw, "start_date") /\ ~is_relative(Get(raw, "start_date").s)
        end == Has(raw, "end_date") /\ ~is_relative(Get(raw, "end_date").s)
    IN  start \/ end

\* Query.cacheable
cacheable(raw) ==
    LET start == Has(raw, "start_date") /\ ~is_relative(Get(raw, "start_date").s)
        end == Has(raw, "end_date") /\ ~is_relative(Get(raw, "end_date").s)
    IN  start /\ end

\* the keys of the wire parameters in the order sorted() puts them
KeyOrder == << "dimensions", "end_date", "filters", "ids", "max_results", "metrics",
               "quotaUser", "samplingLevel", "segment", "sort", "start_date",
               "start_index" >>

\* query.items() as they come, in insertion order
UnsortedItems(d) == [n \in DOMAIN d |-> <<d[n].k, d[n].v>>]

\* sorted(query.items(), key=lambda t: t[0])
SortedItems(d) ==
    LET present == SelectSeq(KeyOrder, LAMBDA k : Has(d, k))
    IN  [n \in DOMAIN present |-> <<present[n], Get(d, present[n])>>]

\* hashlib.sha1(json.dumps(items)).hexdigest(): the digest stands for the
\* serialized items it was computed from
Sha1(items) == [sha1 |-> items]

\* Query.signature: build(copy=False) works on self.raw itself; gives the
\* digest (when build returns) and what self.raw is afterwards
signature(raw) ==
    LET built == build(raw)
    IN  [ok |-> built.ok, raw |-> built.raw, err |-> built.err,
         digest |-> Sha1(SortedItems(built.raw))]

-----------------------------------------------------------------------------
(* The cache (api.cache): a pluggable key/value store with the interface   *)
(* exists(signature), get(query), set(query, response), keyed by the       *)
(* signature of the wire parameters it is handed.  `stored` is the set of  *)
(* its [key, response] entries.                                            *)

CacheKey(raw) == Sha1(SortedItems(raw))
CacheExists(stored, digest) == \E e \in stored : e.key = digest
CacheGet(stored, raw) == (CHOOSE e \in stored : e.key = CacheKey(raw)).response
CacheSet(stored, raw, response) ==
    {e \in stored : e.key # CacheKey(raw)} \cup {[key |-> CacheKey(raw), response |-> response]}

\* the cache is consulted whatever the query
UsesCache_any(cache, raw) == cache

\* `self.api.cache and self.cacheable`, the condition under which execute
\* consults the cache and stores into it
UsesCache(cache, raw) == cache /\ cacheable(raw)

-----------------------------------------------------------------------------
(* Responses of the remote endpoint and reports.                           *)

\* a response page: its rows (each row named by the page and its place in
\* it; has_rows tells whether the response has the key 'rows' at all),
\* whether it has the key 'nextLink', its totals; `error` is the exception
\* the call raised in the place of a response
Page(id, n, more) ==
    [id |-> id, rows |-> [k \in 1..n |-> <<id, k>>], has_rows |-> n > 0,
     nextLink |-> more, totals |-> id, error |-> ""]
Failure(id, error) ==
    [id |-> id, rows |-> <<>>, has_rows |-> FALSE, nextLink |-> FALSE, totals |-> id,
     error |-> error]

\* what set.update(v) adds to a set: the elements of a list, the characters
\* of a str
Identifiers(v) ==
    IF v.t = "list" THEN {[id |-> v.l[n]] : n \in DOMAIN v.l}
    ELSE {[chars |-> v.s, cj |-> v.cj]}

\* Report.append(raw, query), with qraw the query's raw: the report it
\* leaves, returning or raising.  set.update(None) is a TypeError.
append(report, raw, qraw) ==
    LET r1 == [report EXCEPT !.raw = Append(@, raw),
                             !.metrics = @ \cup Identifiers(Get(qraw, "metrics"))]
        d == GetOr(qraw, "dimensions", PyList(<<>>))
    IN  IF d.t = "none" THEN [ok |-> FALSE, report |-> r1, err |-> "TypeError"]
        ELSE [ok |-> TRUE, err |-> "",
              report |-> [r1 EXCEPT !.dimensions = @ \cup Identifiers(d),
                                    !.is_complete = ~raw.nextLink,
                                    !.rows = @ \o raw.rows,
                                    !.totals = raw.totals]]

\* Report.__init__(raw, query)
Report(raw, qraw) ==
    append([raw |-> <<>>, metrics |-> {}, dimensions |-> {}, rows |-> <<>>,
            is_complete |-> FALSE, totals |-> 0], raw, qraw)

\* Report.__len__, which decides the truth value of a report
ReportLen(report) == Len(report.rows)

-----------------------------------------------------------------------------
(* Executing a query.  An execution state x = [st, api, clock, log, runs]  *)
(* is threaded through the operators below.  The log records what an       *)
(* execution did: its start, the cache operations, the wait of the rate    *)
(* limiter, the remote call, the report it returned.                       *)

\* the 1 (second) of Query._wait, in ticks of the clock
TicksPerUnit == 2

Exec == [st |-> Store, api |-> api, clock |-> clock, log |-> log, runs |-> runs]

Logged(x, event) == [x EXCEPT !.log = Append(@, event)]

\* Query._wait: self._lock reads the attribute of the instance when the
\* instance has one and the attribute of the class otherwise; the
\* assignment makes it an attribute of the instance
_wait(x, self) ==
    LET now == x.clock
        elapsed == now - x.st.qs[self].lock.at
        wait == IF TicksPerUnit - elapsed > 0 THEN TicksPerUnit - elapsed ELSE 0
        woke == now + wait
    IN  Logged([x EXCEPT !.clock = woke,
                         !.st.qs[self].lock = [own |-> TRUE, at |-> woke]],
               [ev |-> "wait", run |-> x.runs, q |-> self, wait |-> wait, at |-> woke])

\* every exception of the remote call becomes the error of the service
Reraised_as_service(error) == "GoogleAnalyticsError"

\* the exception execute raises for the exception of the remote call: a
\* TypeError, an exception that has `content`, any other exception
Reraised(error) ==
    CASE error = "TypeError" -> "InvalidRequestError"
      [] error = "HttpError" -> "GoogleAnalyticsError"
      [] OTHER -> error

\* Query.execute on the query `self`, with `page` what the remote endpoint
\* answers if it is called: the execution state it leaves, whether it
\* returned (with which report) or raised, and whether the remote endpoint
\* was called
execute(x, self, page) ==
    LET q == x.st.qs[self]
        run == x.runs + 1
        x0 == Logged([x EXCEPT !.runs = run],
                     [ev |-> "execute", run |-> run, q |-> self, cache |-> x.api.cache,
                      raw |-> q.raw])
        built == build(q.raw)
        raw == built.raw
        \* self.signature is read only when the cache is there and the
        \* query is cacheable, and builds self.raw in place
        sig == signature(q.raw)
        asked == UsesCache(x.api.cache, q.raw)
        hit == asked /\ CacheExists(x.api.stored, sig.digest)
        x1 == IF asked
              THEN Logged([x0 EXCEPT !.st.qs[self].raw = sig.raw],
                          [ev |-> "exists", run |-> run, raw |-> raw, found |-> hit])
              ELSE x0
        x2 == IF hit
              THEN Logged(x1, [ev |-> "get", run |-> run, raw |-> raw])
              ELSE LET waited == _wait(x1, self)
                   IN  Logged(waited, [ev |-> "call", run |-> run, raw |-> raw,
                                       at |-> waited.clock, error |-> page.error])
        response == IF hit THEN CacheGet(x.api.stored, raw) ELSE page
        x3 == IF UsesCache(x.api.cache, x2.st.qs[self].raw)
              THEN Logged([x2 EXCEPT !.api.stored = CacheSet(@, raw, response)],
                          [ev |-> "set", run |-> run, raw |-> raw])
              ELSE x2
        made == Report(response, x3.st.qs[self].raw)
    IN  IF ~built.ok
        THEN [x |-> x0, ok |-> FALSE, err |-> built.err, report |-> NoReport, called |-> FALSE]
        ELSE IF ~hit /\ page.error # ""
        THEN [x |-> x2, ok |-> FALSE, err |-> Reraised(page.error), report |-> NoReport,
              called |-> TRUE]
        ELSE IF ~made.ok
        THEN [x |-> x3, ok |-> FALSE, err |-> made.err, report |-> NoReport, called |-> ~hit]
        ELSE [x |-> Logged(x3, [ev |-> "report", run |-> run, raw |-> made.report.raw]),
              ok |-> TRUE, err |-> "", report |-> made.report, called |-> ~hit]

\* the truth value of `report` in CoreQuery.get: None is false, and a
\* Report is as true as its length is positive
ReportTruth(report) == report # NoReport /\ ReportLen(report) > 0

\* the element of a set of one element
Only(S) == CHOOSE v \in S : TRUE

\* what get is left with when an exception leaves its loop
GetRaised(x, err, pages, merges) ==
    [x |-> x, ok |-> FALSE, err |-> err, report |-> NoReport, merges |-> merges,
     left |-> pages]

\* the loop of CoreQuery.get on the query `self`: `pages` are the responses
\* the remote endpoint gives to the calls made, in order; `merges` records,
\* for every response merged, the response, and report.is_complete and
\* len(report.rows) after it;
\* NoMorePages: the loop goes on to a call that `pages` has no response for
RECURSIVE GetLoop(_, _, _, _, _, _)
RECURSIVE GetMerge(_, _, _, _, _, _)
RECURSIVE GetAdvance(_, _, _, _, _, _)

\* chunk = cursor.execute()
GetLoop(x, self, cursor, report, pages, merges) ==
    IF pages = <<>> THEN GetRaised(x, "NoMorePages", pages, merges)
    ELSE Only({ IF ~chunk.ok THEN GetRaised(chunk.x, chunk.err, pages, merges)
                ELSE GetMerge(self, cursor, report, chunk,
                              IF chunk.called THEN Tail(pages) ELSE pages, merges)
                : chunk \in {execute(x, cursor, Head(pages))} })

\* if report: report.append(chunk.raw[0], cursor)  else: report = chunk
GetMerge(self, cursor, report, chunk, pages, merges) ==
    Only({ IF ~merged.ok THEN GetRaised(chunk.x, merged.err, pages, merges)
           ELSE GetAdvance(self, cursor, merged.report, chunk, pages,
                           Append(merges, [raw |-> chunk.report.raw[1],
                                           is_complete |-> merged.report.is_complete,
                                           rows |-> Len(merged.report.rows)]))
           : merged \in { IF ReportTruth(report)
                          THEN append(report, chunk.report.raw[1], chunk.x.st.qs[cursor].raw)
                          ELSE [ok |-> TRUE, report |-> chunk.report, err |-> ""] } })

\* the loop goes on whatever the number of rows
is_enough_never(report, bound) == FALSE

\* is_enough = len(report.rows) >= self.meta.get('limit', float('inf'))
is_enough(report, bound) == bound # NoLimit /\ Len(report.rows) >= bound

\* is_enough, is_complete, cursor = cursor.next(), and the test of the loop
GetAdvance(self, cursor, report, chunk, pages, merges) ==
    LET enough == is_enough(report, chunk.x.st.qs[self].meta.limit)
        is_complete == chunk.report.is_complete
    IN  Only({ IF ~following.ok
               THEN GetRaised([chunk.x EXCEPT !.st = following.st], following.err, pages, merges)
               ELSE IF enough \/ is_complete
               THEN [x |-> [chunk.x EXCEPT !.st = following.st], ok |-> TRUE, err |-> "",
                     report |-> report, merges |-> merges, left |-> pages]
               ELSE GetLoop([chunk.x EXCEPT !.st = following.st], self, following.res,
                            report, pages, merges)
               : following \in {immutable(LAMBDA s, c : next(s, c), chunk.x.st, cursor)} })

\* CoreQuery.get
get(x, self, pages) == GetLoop(x, self, self, NoReport, pages, <<>>)

\* the property Query.report: the report the query holds when it holds one
\* that is true, and otherwise the report of a get, which the query then
\* holds
report(x, self, pages) ==
    IF ReportTruth(x.st.qs[self].report)
    THEN [x |-> x, ok |-> TRUE, err |-> "", report |-> x.st.qs[self].report, left |-> pages]
    ELSE Only({ IF out.ok
                THEN [x |-> [out.x EXCEPT !.st.qs[self].report = out.report], ok |-> TRUE,
                      err |-> "", report |-> out.report, left |-> out.left]
                ELSE [x |-> out.x, ok |-> FALSE, err |-> out.err, report |-> NoReport,
                      left |-> out.left]
                : out \in {get(x, self, pages)} })

\* the attributes of a Report among the names looked up
ReportAttributes == {"rows"}

\* Query.__getattr__, which Python calls for a name that the query and its
\* class do not have: the name is looked up on self.report
__getattr__(x, self, name, pages) ==
    Only({ IF ~out.ok THEN out
           ELSE IF name \in ReportAttributes THEN out
           ELSE [out EXCEPT !.ok = FALSE, !.err = "AttributeError"]
           : out \in {report(x, self, pages)} })

\* the methods of a query among the names looked up
Methods == {"limit"}

\* hasattr(query, name): true for a method; for another name what
\* __getattr__ does decides: false when it raises AttributeError, and any
\* other exception it raises propagates
hasattr(x, self, name, pages) ==
    IF name \in Methods
    THEN [x |-> x, ok |-> TRUE, err |-> "", has |-> TRUE, left |-> pages]
    ELSE Only({ [x |-> out.x, ok |-> out.ok \/ out.err = "AttributeError",
                 err |-> IF out.err = "AttributeError" THEN "" ELSE out.err,
                 has |-> out.ok, left |-> out.left]
                : out \in {__getattr__(x, self, name, pages)} })

\* utils.isempty, for the lists of arguments of a description
isempty(arguments) == arguments = <<>>

\* what refine returns or raises: the query returned, and the name the
\* message of the exception gives
Refined(x, ok, err, res, named, left) ==
    [x |-> x, ok |-> ok, err |-> err, res |-> res, named |-> named, left |-> left]

\* method(*arguments) for the methods looked up
Method(st, self, attribute, arguments) ==
    immutable(LAMBDA s, q : limit(s, q, arguments), st, self)

\* refine(query, description) for a description of one entry, attribute:
\* arguments, with arguments a list
refine(x, self, attribute, arguments, pages) ==
    Only({ IF ~found.ok THEN Refined(found.x, FALSE, found.err, 0, "", found.left)
           ELSE IF ~found.has
           THEN Refined(found.x, FALSE, "ValueError", 0, attribute, found.left)
           ELSE IF attribute \in Methods
           THEN IF isempty(arguments) THEN Refined(found.x, TRUE, "", self, "", found.left)
                ELSE Only({ Refined([found.x EXCEPT !.st = called.st], called.ok, called.err,
                                    called.res, "", found.left)
                            : called \in {Method(found.x.st, self, attribute, arguments)} })
           \* attribute = getattr(query, attribute) is a value of the
           \* report; setattr(attribute, arguments) lacks an argument
           ELSE Only({ IF ~got.ok THEN Refined(got.x, FALSE, got.err, 0, "", got.left)
                       ELSE IF isempty(arguments)
                       THEN Refined(got.x, TRUE, "", self, "", got.left)
                       ELSE Refined(got.x, FALSE, "TypeError", 0, "", got.left)
                       : got \in {__getattr__(found.x, self, attribute, found.left)} })
           : found \in {hasattr(x, self, attribute, pages)} })

-----------------------------------------------------------------------------
(* The state and the calls of the builder.                                 *)

NoCall == [op |-> "", recv |-> 0, ok |-> TRUE, res |-> 0, err |-> ""]

\* profile.core.query('pageviews') or profile.core.query('pageviews', 'browser')
InitQueries ==
    \E dims \in {<<>>, <<"browser">>} :
        /\ queries = << Query(<<"pageviews">>, dims, EmptyMeta) >>
        /\ heap = <<>>

Idle ==
    /\ api = [cache |-> FALSE, stored |-> {}]
    /\ clock = TicksPerUnit
    /\ log = <<>>
    /\ runs = 0
    /\ threads = <<>>

\* a decorated call q.op(args) on receiver i returned or raised `out`
Returns(op, i, out) ==
    /\ \A n \in DOMAIN out.st.heap : Len(out.st.heap[n]) <= MaxEntries
    /\ queries' = out.st.qs
    /\ heap' = out.st.heap
    /\ last' = [op |-> op, recv |-> i, ok |-> out.ok, res |-> out.res, err |-> out.err]
    /\ UNCHANGED <<api, clock, log, runs, threads>>

\* the queries the program may call next: none while an exception is
\* propagating, none once it holds `max` queries
Receivers(max) == IF last.ok /\ Len(queries) < max THEN DOMAIN queries ELSE {}

\* the caller catches the exception a call raised, and goes on
Except ==
    /\ ~last.ok
    /\ last' = NoCall
    /\ UNCHANGED <<queries, heap, api, clock, log, runs, threads>>

CallQuery(max) ==
    \E i \in Receivers(max) :
        Returns("query", i, immutable(LAMBDA s, q : query(s, q, <<"sessions">>, <<"browser">>), Store, i))

CallMetrics(max) ==
    \E i \in Receivers(max) :
        Returns("metrics", i, immutable(LAMBDA s, q : metrics(s, q, <<"sessions">>), Store, i))

CallDimensions(max) ==
    \E i \in Receivers(max) :
        Returns("dimensions", i, immutable(LAMBDA s, q : dimensions(s, q, <<"browser">>), Store, i))

SetArgs ==
    { <<PyStr("quotaUser"), PyStr("u1"), <<>>>>,
      <<PyStr("quotaUser"), None, <<>>>>,
      <<None, None, << [k |-> "start_date", v |-> PyStr("2020-01-01")] >> >>,
      <<DictV(<< [k |-> "max_results", v |-> PyInt(2)] >>), None, <<>>>>,
      <<None, None, <<>>>> }

CallSet(max) ==
    \E i \in Receivers(max), a \in SetArgs :
        Returns("set", i, immutable(LAMBDA s, q : set(s, q, a[1], a[2], a[3]), Store, i))

ColumnArg(id) == [kind |-> "column", id |-> id]
StringArg(dashes, name) == [kind |-> "string", dashes |-> dashes, name |-> name]
OtherArg == [kind |-> "other"]

SortArgs ==
    { << <<StringArg(0, "pageviews")>>, FALSE >>,
      << <<StringArg(1, "sessions")>>, FALSE >>,
      << <<StringArg(0, "sessions"), ColumnArg("ga:browser")>>, TRUE >>,
      << <<ColumnArg("ga:pageviews")>>, FALSE >>,
      << <<StringArg(0, "browser"), OtherArg>>, FALSE >> }

CallSort(args, max) ==
    \E i \in Receivers(max), a \in args :
        Returns("sort", i, immutable(LAMBDA s, q : sort(s, q, a[1], a[2]), Store, i))

Key(column, method, values) == [column |-> column, method |-> method, values |-> values]
Scalar(v) == [t |-> "scalar", v |-> v]
ListOf(l) == [t |-> "list", l |-> l]

FilterArgs ==
    { << PyStr("ga:pageviews>10"), <<>> >>,
      << None, <<Key("sessions", "gt", Scalar("10"))>> >>,
      << None, <<Key("browser", "", ListOf(<<"Chrome", "Firefox">>))>> >>,
      << PyStr("ga:pageviews>10"), <<Key("sessions", "gt", Scalar("10"))>> >>,
      << None, <<Key("sessions", "above", Scalar("10"))>> >> }

CallFilter(args, max) ==
    \E i \in Receivers(max), a \in args :
        Returns("filter", i, immutable(LAMBDA s, q : filter(s, q, a[1], a[2]), Store, i))

SegmentArgs ==
    { << "gaid::-1", "", "", <<>> >>,
      << "", "users", "", <<Key("sessions", "gt", Scalar("10"))>> >>,
      << "", "sessions", "hits", <<Key("browser", "", Scalar("Chrome"))>> >>,
      << "", "", "", <<Key("sessions", "gt", Scalar("10"))>> >>,
      << "gaid::-1", "users", "", <<Key("sessions", "gt", Scalar("10"))>> >> }

CallSegment(args, max) ==
    \E i \in Receivers(max), a \in args :
        Returns("segment", i, immutable(LAMBDA s, q : segment(s, q, a[1], a[2], a[3], a[4]), Store, i))

RangeArgs == { <<"2020-01-01", "2020-01-31">>, <<"2020-01-01", "">>, <<"30daysAgo", "yesterday">> }

CallRange(args, max) ==
    \E i \in Receivers(max), a \in args :
        Returns("range", i, immutable(LAMBDA s, q : range(s, q, a[1], a[2]), Store, i))

IntervalArgs == { PyStr("day"), PyInt(0), PyInt(5), PyStr("lifetime"), PyStr("decade") }

CallInterval(max) ==
    \E i \in Receivers(max), g \in IntervalArgs :
        Returns("interval", i, immutable(LAMBDA s, q : interval(s, q, g), Store, i))

CallShortcut(max) ==
    \E i \in Receivers(max), name \in DOMAIN Shortcuts :
        Returns(name, i, shortcut(Store, i, name, "2020-01-01", "2020-01-31"))

CallLifetime(max) ==
    \E i \in Receivers(max) :
        Returns("lifetime", i, lifetime(Store, i, "2020-01-01", "2020-01-31"))

PrecisionArgs == { PyInt(0), PyInt(1), PyInt(3), PyStr("HIGHER_PRECISION"), PyStr("EXACT") }

CallPrecision(args, max) ==
    \E i \in Receivers(max), p \in args :
        Returns("precision", i, immutable(LAMBDA s, q : precision(s, q, p), Store, i))

LimitArgs == { <<2>>, <<3, 2>>, <<>> }

CallLimit(args, max) ==
    \E i \in Receivers(max), a \in args :
        Returns("limit", i, immutable(LAMBDA s, q : limit(s, q, a), Store, i))

CallStep(max) ==
    \E i \in Receivers(max) :
        Returns("step", i, immutable(LAMBDA s, q : step(s, q, 2), Store, i))

CallNext(max) ==
    \E i \in Receivers(max) :
        Returns("next", i, immutable(LAMBDA s, q : next(s, q), Store, i))

Init ==
    /\ InitQueries
    /\ last = NoCall
    /\ Idle

Next ==
    \/ CallQuery(MaxQueries)
    \/ CallMetrics(MaxQueries)
    \/ CallDimensions(MaxQueries)
    \/ CallSet(MaxQueries)
    \/ CallSort(SortArgs, MaxQueries)
    \/ CallFilter(FilterArgs, MaxQueries)
    \/ CallSegment(SegmentArgs, MaxQueries)
    \/ CallRange(RangeArgs, MaxQueries)
    \/ CallInterval(MaxQueries)
    \/ CallShortcut(MaxQueries)
    \/ CallLifetime(MaxQueries)
    \/ CallPrecision(PrecisionArgs, MaxQueries)
    \/ CallLimit(LimitArgs, MaxQueries)
    \/ CallStep(MaxQueries)
    \/ CallNext(MaxQueries)
    \/ Except

Spec == Init /\ [][Next]_vars

-----------------------------------------------------------------------------
(* The builder alone, on chains of sort / filter / segment calls, and on   *)
(* chains that set the same wire parameters in different orders.           *)

\* the number of Query objects of a chain of sort / filter / segment calls
MaxChain == 4
\* the number of Query objects of the chains whose signatures are compared
MaxSig == 5

NextChain ==
    \/ CallSort(SortArgs, MaxChain)
    \/ CallFilter(FilterArgs, MaxChain)
    \/ CallSegment(SegmentArgs, MaxChain)
    \/ Except

SpecChain == Init /\ [][NextChain]_vars

NextSig ==
    \/ CallRange({<<"2020-01-01", "2020-01-31">>}, MaxSig)
    \/ CallLimit({<<2>>}, MaxSig)
    \/ CallSort({<< <<StringArg(1, "pageviews")>>, FALSE >>}, MaxSig)
    \/ CallFilter({<< PyStr("ga:pageviews>10"), <<>> >>}, MaxSig)

SpecSig == Init /\ [][NextSig]_vars

-----------------------------------------------------------------------------
(* The builder alone, on chains of filter and segment calls that give a    *)
(* raw expression, a keyword selection, or both.                           *)

\* filter calls with both a raw expression and a keyword selection
FilterBoth == { << PyStr("ga:pageviews>10"), <<Key("sessions", "gt", Scalar("10"))>> >> }

\* filter calls with one of them
FilterOne ==
    { << PyStr("ga:pageviews>10"), <<>> >>,
      << None, <<Key("browser", "", ListOf(<<"Chrome", "Firefox">>))>> >> }

\* segment calls with both a raw expression and a keyword selection
SegmentBoth == { << "gaid::-1", "users", "", <<Key("sessions", "gt", Scalar("10"))>> >> }

\* segment calls with one of them
SegmentOne ==
    { << "gaid::-1", "", "", <<>> >>,
      << "", "users", "", <<Key("sessions", "gt", Scalar("10"))>> >> }

NextSelect ==
    \/ CallFilter(FilterOne \cup FilterBoth, MaxChain)
    \/ CallSegment(SegmentOne \cup SegmentBoth, MaxChain)
    \/ Except

SpecSelect == Init /\ [][NextSelect]_vars

-----------------------------------------------------------------------------
(* Executions: the program holds two queries, one with an absolute date   *)
(* range and one with an absolute, a relative or no date range, and        *)
(* executes them against an api with or without a cache, while time        *)
(* passes.                                                                 *)

\* the number of executions (calls of Query.execute) of a behaviour
MaxRuns == 3
\* the number of response pages the remote endpoint has for one get
MaxPages == 2
\* the number of rows of a response page that has rows
MaxRows == 2
\* the number of ticks the clock is ahead of its start when the program
\* last idles between two calls
MaxIdle == 1

\* the answers of the remote endpoint to the successive calls of one get:
\* every page but the last has nextLink; the last call may raise instead
RECURSIVE PageSeqs(_, _)
PageSeqs(id, len) ==
    IF len = 1
    THEN {<<page>> : page \in {Page(id, n, FALSE) : n \in {0, MaxRows}}
                               \cup {Failure(id, "HttpError")}}
    ELSE {<<page>> \o pages : page \in {Page(id, n, TRUE) : n \in {0, MaxRows}},
                              pages \in PageSeqs(id + 1, len - 1)}

\* its answers to the call of one execute: a page of rows with nextLink, a
\* last page without rows, an exception
Pages(id) == {Page(id, MaxRows, TRUE), Page(id, 0, FALSE), Failure(id, "HttpError")}

\* the date ranges of the second query: absolute, relative, none
Ranges == { <<"2020-01-01", "2020-01-31">>, <<"2020-01-01", "yesterday">>, <<>> }

InitExec ==
    /\ \E dims \in {<<>>, <<"browser">>}, dates \in Ranges :
          LET made == [qs |-> << Query(<<"pageviews">>, dims, EmptyMeta) >>, heap |-> <<>>]
              a == immutable(LAMBDA s, q : range(s, q, "2020-01-01", "2020-01-31"), made, 1)
              b == immutable(LAMBDA s, q : range(s, q, dates[1], dates[2]), made, 1)
          IN  /\ queries = << a.st.qs[a.res], IF dates = <<>> THEN made.qs[1] ELSE b.st.qs[b.res] >>
              /\ heap = <<>>
    /\ \E cache \in BOOLEAN : api = [cache |-> cache, stored |-> {}]
    /\ last = NoCall
    /\ clock = TicksPerUnit
    /\ log = <<>>
    /\ runs = 0
    /\ threads = <<>>

\* a call q.execute() or q.get() on receiver i returned or raised `out`;
\* the cursors of a get are dropped; `first` is the number of the first
\* execution of the call
Executed(op, i, out, merges) ==
    /\ out.x.runs <= MaxRuns
    /\ queries' = SubSeq(out.x.st.qs, 1, Len(queries))
    /\ heap' = out.x.st.heap
    /\ api' = out.x.api
    /\ clock' = out.x.clock
    /\ log' = out.x.log
    /\ runs' = out.x.runs
    /\ last' = [op |-> op, recv |-> i, ok |-> out.ok, res |-> out.report, err |-> out.err,
                merges |-> merges, first |-> runs + 1]
    /\ UNCHANGED threads

Executors == IF last.ok /\ runs < MaxRuns THEN DOMAIN queries ELSE {}

CallExecute ==
    \E i \in Executors : \E page \in Pages(runs + 1) :
        \E out \in {execute(Exec, i, page)} : Executed("execute", i, out, <<>>)

CallGet ==
    \E i \in Executors : \E len \in 1..MaxPages : \E pages \in PageSeqs(runs + 1, len) :
        \E out \in {get(Exec, i, pages)} :
            /\ out.err # "NoMorePages"
            /\ Executed("get", i, out, out.merges)

\* time passes
Tick ==
    /\ last.ok
    /\ clock < TicksPerUnit + MaxIdle
    /\ clock' = clock + 1
    /\ UNCHANGED <<queries, heap, last, api, log, runs, threads>>

NextExec ==
    \/ CallExecute
    \/ Tick
    \/ Except

SpecExec == InitExec /\ [][NextExec]_vars

NextGet ==
    \/ CallGet
    \/ Tick
    \/ Except

SpecGet == InitExec /\ [][NextGet]_vars

-----------------------------------------------------------------------------
(* Pagination: the program holds one query, with or without a limit and a  *)
(* page size, and gets it against an endpoint that answers every call with *)
(* a page of as many rows as the call asked for, or of none, with or       *)
(* without nextLink.                                                       *)

\* the rows of a full page: max_results of the query, as far as the bound
\* on the rows of a page goes
PageRows(raw) ==
    LET asked == GetOr(raw, "max_results", PyInt(DefaultMaxResults)).n
    IN  IF asked < MaxRows THEN asked ELSE MaxRows

\* the answers to the successive calls of one get: pages of n rows or none,
\* each with or without nextLink
RECURSIVE PagedSeqs(_, _, _)
PagedSeqs(id, len, n) ==
    LET pages == {Page(id, rows, more) : rows \in {0, n}, more \in BOOLEAN}
    IN  IF len = 1
        THEN {<<page>> : page \in pages}
        ELSE {<<page>> \o rest : page \in pages, rest \in PagedSeqs(id + 1, len - 1, n)}

\* q, q.limit(2), q.limit(3).step(2), q.limit(2, 3).step(2), q.step(2):
\* the arguments of limit (none: limit is not called) and of step (0: step
\* is not called)
Limits ==
    { [range |-> <<>>, step |-> 0], [range |-> <<2>>, step |-> 0],
      [range |-> <<3>>, step |-> 2], [range |-> <<2, 3>>, step |-> 2],
      [range |-> <<>>, step |-> 2] }

InitPagedOf(limits) ==
    /\ \E dims \in {<<>>, <<"browser">>}, dated \in BOOLEAN, lim \in limits :
          LET made == [qs |-> << Query(<<"pageviews">>, dims, EmptyMeta) >>, heap |-> <<>>]
              a == IF dated
                   THEN immutable(LAMBDA s, q : range(s, q, "2020-01-01", "2020-01-31"), made, 1)
                   ELSE [st |-> made, res |-> 1]
              b == IF lim.range # <<>>
                   THEN immutable(LAMBDA s, q : limit(s, q, lim.range), a.st, a.res)
                   ELSE a
              c == IF lim.step # 0
                   THEN immutable(LAMBDA s, q : step(s, q, lim.step), b.st, b.res)
                   ELSE b
          IN  /\ queries = << c.st.qs[c.res] >>
              /\ heap = <<>>
    /\ \E cache \in BOOLEAN : api = [cache |-> cache, stored |-> {}]
    /\ last = NoCall
    /\ clock = TicksPerUnit
    /\ log = <<>>
    /\ runs = 0
    /\ threads = <<>>

InitPaged == InitPagedOf(Limits)

CallGetPaged ==
    \E i \in Executors : \E len \in 1..MaxPages :
        \E pages \in PagedSeqs(runs + 1, len, PageRows(queries[i].raw)) :
            \E out \in {get(Exec, i, pages)} :
                /\ out.err # "NoMorePages"
                /\ Executed("get", i, out, out.merges)

NextPaged ==
    \/ CallGetPaged
    \/ Except

SpecPaged == InitPaged /\ [][NextPaged]_vars

-----------------------------------------------------------------------------
(* Descriptions: the program refines the query it holds by a description   *)
(* of one entry, which names a method, a value of the report, or nothing   *)
(* the query or its report has.                                            *)

Descriptions ==
    { <<"limit", <<2>>>>, <<"limit", <<>>>>, <<"frobnicate", <<2>>>>, <<"rows", <<2>>>> }

\* the answers of the remote endpoint to the calls made while the query is
\* refined; looking up a method makes none
Answers(i, attribute) ==
    IF attribute \in Methods THEN {<<>>}
    ELSE UNION {PagedSeqs(runs + 1, len, PageRows(queries[i].raw)) : len \in 1..MaxPages}

\* the query has neither limit nor page size
InitRefine == InitPagedOf({[range |-> <<>>, step |-> 0]})

\* a call refine(q, {attribute: arguments}) on query i returned or raised
\* `out`; the cursors of a get it made are dropped
CallRefine ==
    \E i \in Executors : \E d \in Descriptions :
        \E pages \in Answers(i, d[1]) : \E x \in {Exec} :
            \E out \in {refine(x, i, d[1], d[2], pages)} :
                /\ Len(queries) < MaxQueries
                /\ out.err # "NoMorePages"
                /\ out.x.runs <= MaxRuns
                /\ queries' = IF out.x.runs = runs THEN out.x.st.qs
                              ELSE SubSeq(out.x.st.qs, 1, Len(queries))
                /\ heap' = out.x.st.heap
                /\ api' = out.x.api
                /\ clock' = out.x.clock
                /\ log' = out.x.log
                /\ runs' = out.x.runs
                /\ last' = [op |-> "refine", recv |-> i, ok |-> out.ok, res |-> out.res,
                            err |-> out.err, attribute |-> d[1], named |-> out.named,
                            first |-> runs + 1]
                /\ UNCHANGED threads

NextRefine ==
    \/ CallRefine
    \/ Except

SpecRefine == InitRefine /\ [][NextRefine]_vars

-----------------------------------------------------------------------------
(* Failures: the program holds one query and executes or gets it against   *)
(* an endpoint whose calls return a page or raise.                         *)

\* the exceptions of the remote call: a TypeError of the client library, an
\* error of the API (it has `content`), any other exception
Errors == {"TypeError", "HttpError", "OSError"}

\* the answers to the successive calls of one get: pages of rows with
\* nextLink, then a page without nextLink or an exception
RECURSIVE FailingSeqs(_, _)
FailingSeqs(id, len) ==
    IF len = 1
    THEN {<<page>> : page \in {Page(id, MaxRows, FALSE)}
                               \cup {Failure(id, error) : error \in Errors}}
    ELSE {<<Page(id, MaxRows, TRUE)>> \o rest : rest \in FailingSeqs(id + 1, len - 1)}

CallExecuteFailing ==
    \E i \in Executors : \E pages \in FailingSeqs(runs + 1, 1) : \E x \in {Exec} :
        \E out \in {execute(x, i, pages[1])} : Executed("execute", i, out, <<>>)

CallGetFailing ==
    \E i \in Executors : \E len \in 1..MaxPages : \E pages \in FailingSeqs(runs + 1, len) :
        \E x \in {Exec} : \E out \in {get(x, i, pages)} :
            /\ out.err # "NoMorePages"
            /\ Executed("get", i, out, out.merges)

NextFailing ==
    \/ CallExecuteFailing
    \/ CallGetFailing
    \/ Except

SpecFailing == InitRefine /\ [][NextFailing]_vars

-----------------------------------------------------------------------------
(* Limits and page sizes: the program derives queries with limit and step  *)
(* from the query it holds, and gets one of them.                           *)

\* the queries the program holds at most while it derives them
MaxDerived == 2

CallGetOnce ==
    /\ runs = 0
    /\ CallGetPaged

NextLimit ==
    \/ CallLimit(LimitArgs, MaxDerived)
    \/ CallStep(MaxDerived)
    \/ CallGetOnce
    \/ Except

SpecLimit == InitRefine /\ [][NextLimit]_vars

-----------------------------------------------------------------------------
(* The selector compiler alone, on the keyword mappings a caller writes.   *)

\* the number of keys of a keyword mapping
MaxKeys == 2

\* what a key is mapped to: one value, or a list of none, one or two
Mapped == { Scalar("10"), ListOf(<<>>), ListOf(<<"10">>), ListOf(<<"Chrome", "Firefox">>) }

\* the keys: column, column__gt, column__above (not a selector)
Keywords == { Key(column, method, values) :
              column \in {"sessions", "browser"}, method \in {"", "gt", "above"}, values \in Mapped }

\* keyword mappings: no key twice
Selections ==
    UNION { { selection \in [1..len -> Keywords] :
                \A m, n \in 1..len :
                    (selection[m].column = selection[n].column
                        /\ selection[m].method = selection[n].method) => m = n } :
            len \in 0..MaxKeys }

\* the program compiles one mapping, and another one after a mapping that
\* was rejected
CallSelect ==
    /\ last = NoCall
    /\ \E selection \in Selections : \E out \in {select(selection)} :
          last' = [op |-> "select", recv |-> 0, ok |-> out.ok, res |-> out.selections,
                   err |-> out.err, selection |-> selection]
    /\ UNCHANGED <<queries, heap, api, clock, log, runs, threads>>

NextCompile ==
    \/ CallSelect
    \/ Except

SpecCompile == Init /\ [][NextCompile]_vars

-----------------------------------------------------------------------------
(* Segments from keyword selections, with and without a scope and a        *)
(* metric scope.                                                           *)

SegmentScopes == {"", "users", "sessions"}
MetricScopes == {"", "hits", "sessions", "users"}
SegmentSelections ==
    { <<Key("sessions", "gt", Scalar("10"))>>,
      <<Key("browser", "", ListOf(<<"Chrome", "Firefox">>))>> }

SegmentScoped ==
    { <<"", scope, metric_scope, selection>> :
          scope \in SegmentScopes, metric_scope \in MetricScopes, selection \in SegmentSelections }

\* a segment call, with what it was called with
CallSegmentScoped ==
    \E i \in Receivers(MaxQueries), a \in SegmentScoped :
        \E out \in {immutable(LAMBDA s, q : segment(s, q, a[1], a[2], a[3], a[4]), Store, i)} :
            /\ \A n \in DOMAIN out.st.heap : Len(out.st.heap[n]) <= MaxEntries
            /\ queries' = out.st.qs
            /\ heap' = out.st.heap
            /\ last' = [op |-> "segment", recv |-> i, ok |-> out.ok, res |-> out.res, err |-> out.err,
                        scope |-> a[2], metric_scope |-> a[3], selection |-> a[4]]
            /\ UNCHANGED <<api, clock, log, runs, threads>>

NextSegment ==
    \/ CallSegmentScoped
    \/ Except

SpecSegment == Init /\ [][NextSegment]_vars

-----------------------------------------------------------------------------
(* Signatures: the program derives queries and reads their signatures.     *)

\* the number of times the program reads the signature of one query
MaxReads == 2

\* how often the signature of the query i was read: the wire parameters
\* keep the count
Reads(i) ==
    LET m == Get(queries[i].raw, "metrics")
    IN  IF m.t = "list" THEN 0 ELSE m.cj + 1

\* q.signature
ReadSignature(i) ==
    /\ last.ok
    /\ i \in DOMAIN queries
    /\ Reads(i) < MaxReads
    /\ \E out \in {signature(queries[i].raw)} :
          /\ queries' = [queries EXCEPT ![i].raw = out.raw]
          /\ last' = [op |-> "signature", recv |-> i, ok |-> out.ok, res |-> out.digest,
                      err |-> out.err]
    /\ UNCHANGED <<heap, api, clock, log, runs, threads>>

CallSignature == \E i \in DOMAIN queries : ReadSignature(i)

NextRead ==
    \/ CallDimensions(MaxQueries)
    \/ CallRange({<<"2020-01-01", "2020-01-31">>}, MaxQueries)
    \/ CallLimit({<<2>>}, MaxQueries)
    \/ CallSignature
    \/ Except

SpecRead == Init /\ [][NextRead]_vars

-----------------------------------------------------------------------------
(* Lazy reports: the program reads q.report and q.rows of the query it     *)
(* holds.                                                                  *)

\* the names read: the property report, and rows, which __getattr__ looks
\* up on the report
Lazy == {"report", "rows"}

\* the answers of the remote endpoint to the calls made while the query is
\* read; a query that holds a report that is true makes none
Fetched(i) ==
    IF ReportTruth(queries[i].report) THEN {<<>>}
    ELSE UNION {PagedSeqs(runs + 1, len, PageRows(queries[i].raw)) : len \in 1..MaxPages}

\* a read of `name` on query i returned or raised `out`; the cursors of the
\* get it made are dropped
Accessed(i, name, out) ==
    /\ out.err # "NoMorePages"
    /\ out.x.runs <= MaxRuns
    /\ queries' = SubSeq(out.x.st.qs, 1, Len(queries))
    /\ heap' = out.x.st.heap
    /\ api' = out.x.api
    /\ clock' = out.x.clock
    /\ log' = out.x.log
    /\ runs' = out.x.runs
    /\ last' = [op |-> name, recv |-> i, ok |-> out.ok, res |-> out.report, err |-> out.err]
    /\ UNCHANGED threads

\* q.report
CallReport ==
    /\ last.ok
    /\ \E i \in DOMAIN queries : \E pages \in Fetched(i) : \E x \in {Exec} :
          \E out \in {report(x, i, pages)} : Accessed(i, "report", out)

\* q.rows
CallRows ==
    /\ last.ok
    /\ \E i \in DOMAIN queries : \E pages \in Fetched(i) : \E x \in {Exec} :
          \E out \in {__getattr__(x, i, "rows", pages)} : Accessed(i, "rows", out)

NextLazy ==
    \/ CallReport
    \/ CallRows
    \/ Except

SpecLazy == InitRefine /\ [][NextLazy]_vars

-----------------------------------------------------------------------------
(* Concurrent callers: threads that execute one and the same query, with   *)
(* no cache, each going through the statements of Query._wait and the      *)
(* remote call one at a time.                                              *)

\* the number of threads
MaxThreads == 2

IdleThread == [pc |-> "idle", now |-> 0, wait |-> 0, wake |-> 0, run |-> 0]

InitConc ==
    /\ InitQueries
    /\ last = NoCall
    /\ api = [cache |-> FALSE, stored |-> {}]
    /\ clock = TicksPerUnit
    /\ log = <<>>
    /\ runs = 0
    /\ threads = [t \in 1..MaxThreads |-> IdleThread]

\* the query the threads execute: the one query of the program
Shared == Len(queries)

\* a thread calls execute and gets to self._wait()
ThreadExecute(t) ==
    /\ threads[t].pc = "idle"
    /\ runs < MaxRuns
    /\ runs' = runs + 1
    /\ threads' = [threads EXCEPT ![t] = [IdleThread EXCEPT !.pc = "now", !.run = runs + 1]]
    /\ UNCHANGED <<queries, heap, last, api, clock, log>>

\* now = time.time()
ThreadNow(t) ==
    /\ threads[t].pc = "now"
    /\ threads' = [threads EXCEPT ![t].pc = "elapsed", ![t].now = clock]
    /\ UNCHANGED <<queries, heap, last, api, clock, log, runs>>

\* elapsed = now - self._lock; wait = max(0, 1 - elapsed); time.sleep(wait)
\* is entered
ThreadElapsed(t) ==
    LET elapsed == threads[t].now - queries[Shared].lock.at
        wait == IF TicksPerUnit - elapsed > 0 THEN TicksPerUnit - elapsed ELSE 0
    IN  /\ threads[t].pc = "elapsed"
        /\ threads' = [threads EXCEPT ![t].pc = "sleep", ![t].wait = wait,
                                      ![t].wake = clock + wait]
        /\ UNCHANGED <<queries, heap, last, api, clock, log, runs>>

\* time.sleep(wait) returns
ThreadWake(t) ==
    /\ threads[t].pc = "sleep"
    /\ clock >= threads[t].wake
    /\ threads' = [threads EXCEPT ![t].pc = "stamp"]
    /\ UNCHANGED <<queries, heap, last, api, clock, log, runs>>

\* self._lock = time.time()
ThreadStamp(t) ==
    /\ threads[t].pc = "stamp"
    /\ queries' = [queries EXCEPT ![Shared].lock = [own |-> TRUE, at |-> clock]]
    /\ threads' = [threads EXCEPT ![t].pc = "call"]
    /\ UNCHANGED <<heap, last, api, clock, log, runs>>

\* response = self.endpoint.get(**raw).execute(), and execute returns
ThreadCall(t) ==
    /\ threads[t].pc = "call"
    /\ log' = Append(log, [ev |-> "call", run |-> threads[t].run, thread |-> t,
                           wait |-> threads[t].wait, at |-> clock])
    /\ threads' = [threads EXCEPT ![t].pc = "idle"]
    /\ UNCHANGED <<queries, heap, last, api, clock, runs>>

\* time passes: while a thread sleeps, and a while longer
ThreadTick ==
    /\ \/ clock < TicksPerUnit + MaxIdle
       \/ \E t \in DOMAIN threads : threads[t].pc = "sleep" /\ clock < threads[t].wake
    /\ clock' = clock + 1
    /\ UNCHANGED <<queries, heap, last, api, log, runs, threads>>

NextConc ==
    \/ \E t \in DOMAIN threads : ThreadExecute(t)
    \/ \E t \in DOMAIN threads : ThreadNow(t)
    \/ \E t \in DOMAIN threads : ThreadElapsed(t)
    \/ \E t \in DOMAIN threads : ThreadWake(t)
    \/ \E t \in DOMAIN threads : ThreadStamp(t)
    \/ \E t \in DOMAIN threads : ThreadCall(t)
    \/ ThreadTick

SpecConc == InitConc /\ [][NextConc]_vars

-----------------------------------------------------------------------------
(* Properties of the builder.                                              *)

BuilderOps == {"query", "metrics", "dimensions", "set", "sort", "filter", "segment",
               "range", "interval", "hourly", "daily", "weekly", "monthly", "yearly",
               "lifetime", "precision", "limit", "step", "next"}

\* C1: a builder call q.m(args) returns a Query object that is none of the
\* queries that existed before the call (so not q), and the wire
\* parameters raw of q and of every other existing query are after the
\* call what they were before it, whether the call returned or raised.
C1_BuilderLeavesReceiver ==
    [][last'.op \in BuilderOps =>
          /\ \A i \in DOMAIN queries :
                i \in DOMAIN queries' /\ queries'[i].raw = queries[i].raw
          /\ last'.ok => last'.res \in DOMAIN queries' \ DOMAIN queries]_vars

\* a call on a derived query returned a query with other wire parameters
C1_Witness ==
    /\ last.op = "interval" /\ last.ok /\ last.recv = 2
    /\ queries[last.res].raw # queries[last.recv].raw

\* the dates of the model that are no relative expressions
AbsoluteDates == {"2020-01-01", "2020-01-31"}

HasAbsolute(raw, key) == Has(raw, key) /\ Get(raw, key).s \in AbsoluteDates

\* C5: a query is cacheable exactly when raw has both start_date and
\* end_date and both are absolute dates.
C5_CacheableIffAbsoluteRange ==
    \A i \in DOMAIN queries :
        cacheable(queries[i].raw)
            <=> (HasAbsolute(queries[i].raw, "start_date") /\ HasAbsolute(queries[i].raw, "end_date"))

\* the program holds a cacheable query and one that is not cacheable for
\* its relative end date alone
C5_Witness ==
    /\ \E i \in DOMAIN queries : cacheable(queries[i].raw)
    /\ \E i \in DOMAIN queries :
          /\ HasAbsolute(queries[i].raw, "start_date")
          /\ Has(queries[i].raw, "end_date") /\ is_relative(Get(queries[i].raw, "end_date").s)

\* the pending entries a query holds under a key of its options
Pending(qs, h, i, key) == IF qs[i].meta[key] = NoRef THEN <<>> ELSE h[qs[i].meta[key]]

ChainOps == {"sort", "filter", "segment"}

\* C2: queries derived from a common ancestor are independently chainable:
\* a call b = a.sort(x) (likewise filter, segment) leaves the pending
\* entries of a as they were, so that a later c = a.sort(y) holds a's
\* entries followed by y only, and the options of b share no list with
\* the options of a.
C2_DerivedQueriesIndependent ==
    [][last'.op \in ChainOps /\ last'.ok =>
          \A key \in {"sort", "filters", "segments"} :
              /\ Pending(queries', heap', last'.recv, key) = Pending(queries, heap, last'.recv, key)
              /\ queries'[last'.res].meta[key] # NoRef
                    => queries'[last'.res].meta[key] # queries'[last'.recv].meta[key]]_vars

\* the signature of a query, when its build returns
Built(i) == build(queries[i].raw)
Digest(i) == signature(queries[i].raw).digest

\* C4: two queries whose built wire parameters are the same key-to-value
\* mapping have the same signature, in whatever order the builder calls
\* set the keys.
C4_SignatureIgnoresCallOrder ==
    \A i, j \in DOMAIN queries :
        (/\ i # j
         /\ Keys(queries[i].raw) = Keys(queries[j].raw)   \* build keeps the keys
         /\ Built(i).ok /\ Built(j).ok
         /\ SameMap(Built(i).raw, Built(j).raw))
            => Digest(i) = Digest(j)

\* two queries hold the same wire parameters, set in different orders
C4_Witness ==
    \E i, j \in DOMAIN queries :
        /\ SameMap(Built(i).raw, Built(j).raw)
        /\ UnsortedItems(Built(i).raw) # UnsortedItems(Built(j).raw)
        /\ Has(queries[i].raw, "start_date") /\ Has(queries[i].raw, "max_results")
        /\ Digest(i) = Digest(j)

-----------------------------------------------------------------------------
(* Properties of executions.                                               *)

\* C3: q.execute() leaves q as it was: the wire parameters raw (metrics and
\* dimensions still lists of identifiers) and the options meta of q are
\* after the call what they were before it, with or without a cache,
\* cacheable or not, and the report returned holds q's metric identifiers.
C3_ExecuteLeavesQuery ==
    [][last'.op = "execute" /\ runs' # runs =>
          /\ queries'[last'.recv].raw = queries[last'.recv].raw
          /\ queries'[last'.recv].meta = queries[last'.recv].meta
          /\ last'.ok => last'.res.metrics
                            = Identifiers(Get(queries[last'.recv].raw, "metrics"))]_vars

\* both dates of wire parameters are there and absolute
Absolute(raw) == HasAbsolute(raw, "start_date") /\ HasAbsolute(raw, "end_date")

\* the events of one kind that an execution logged
EventsOf(run, kind) == {n \in DOMAIN log : log[n].run = run /\ log[n].ev = kind}

\* the dates of the wire parameters a cache entry is keyed by
KeyDates(key) == {key.sha1[n][2].s : n \in {m \in DOMAIN key.sha1 :
                                              key.sha1[m][1] \in {"start_date", "end_date"}}}

\* C6: exists, get and set are invoked only for queries that are cacheable
\* (both dates absolute), so that no response of a query with a relative
\* date is stored or served; and an execution of a query that is not
\* cacheable, or without a cache, or that the cache has no entry for, goes
\* on to the wait of the rate limiter and to the remote call.
C6_CacheOnlyWhenCacheable ==
    /\ \A n \in DOMAIN log :
          log[n].ev \in {"exists", "get", "set"} => Absolute(log[n].raw)
    /\ \A e \in api.stored : Cardinality(KeyDates(e.key)) = 2 /\ KeyDates(e.key) \subseteq AbsoluteDates
    /\ \A n \in DOMAIN log :
          (/\ log[n].ev = "execute"
           /\ \/ ~log[n].cache
              \/ ~Absolute(log[n].raw)
              \/ \E m \in EventsOf(log[n].run, "exists") : ~log[m].found)
             => /\ EventsOf(log[n].run, "wait") # {}
                /\ EventsOf(log[n].run, "call") # {}
                /\ EventsOf(log[n].run, "get") = {}

\* with a cache, a cacheable query was executed through the cache and a
\* query with a relative date was executed by a remote call, past the cache
C6_Witness ==
    /\ api.cache
    /\ \E n \in DOMAIN log :
          /\ log[n].ev = "execute" /\ Absolute(log[n].raw)
          /\ EventsOf(log[n].run, "exists") # {} /\ EventsOf(log[n].run, "set") # {}
    /\ \E n \in DOMAIN log :
          /\ log[n].ev = "execute" /\ Has(log[n].raw, "end_date") /\ ~Absolute(log[n].raw)
          /\ EventsOf(log[n].run, "call") # {}
          /\ EventsOf(log[n].run, "exists") \cup EventsOf(log[n].run, "set") = {}

\* C7: an execution that the cache reports an entry for returns the Report
\* of the cached response and makes neither a wait nor a remote call; and
\* an execution that makes a remote call has made its wait before.
C7_CacheHitServesReport ==
    /\ \A n \in DOMAIN log :
          log[n].ev = "exists" /\ log[n].found
             => /\ EventsOf(log[n].run, "wait") \cup EventsOf(log[n].run, "call") = {}
                /\ \E m \in EventsOf(log[n].run, "report") :
                      log[m].raw = << CacheGet(api.stored, log[n].raw) >>
    /\ \A n \in DOMAIN log :
          log[n].ev = "call" => \E m \in EventsOf(log[n].run, "wait") : m < n

\* the remote calls made, in order
Calls == SelectSeq(log, LAMBDA event : event.ev = "call")

\* C8: any two consecutive remote calls, of one query or of two, are at
\* least the minimum interval apart.
C8_CallsAnIntervalApart ==
    \A n \in 1..(Len(Calls) - 1) : Calls[n + 1].at - Calls[n].at >= TicksPerUnit

\* the rows of the responses merged, in order
RECURSIVE RowsOf(_)
RowsOf(merges) ==
    IF merges = <<>> THEN <<>> ELSE merges[1].raw.rows \o RowsOf(Tail(merges))

\* C10: a get of a query without a limit, whose remote calls all return a
\* page, returns a report whose rows are the rows of all the pages in the
\* order fetched, and report.is_complete is false after every merge but the
\* last and true after the last.
C10_GetConcatenatesPages ==
    (/\ last.op = "get"
     /\ queries[last.recv].meta.limit = NoLimit
     /\ last.err # "GoogleAnalyticsError")
        => /\ last.ok
           /\ last.res.rows = RowsOf(last.merges)
           /\ \A k \in DOMAIN last.merges :
                 last.merges[k].is_complete <=> k = Len(last.merges)

\* C9: among concurrent callers the check, the sleep and the stamp of the
\* rate limiter are one atomic step: no two callers both compute a wait of
\* zero and make their remote calls less than the minimum interval apart.
C9_NoBurstOfConcurrentCallers ==
    \A n, m \in DOMAIN log :
        (/\ n < m
         /\ log[n].ev = "call" /\ log[m].ev = "call"
         /\ log[n].thread # log[m].thread
         /\ log[n].wait = 0 /\ log[m].wait = 0)
            => log[m].at - log[n].at >= TicksPerUnit

-----------------------------------------------------------------------------
(* Pagination.                                                             *)

\* the limit of the query the last call was made on
LimitOf == queries[last.recv].meta.limit

\* is_enough and is_complete after the k-th page merged by the last get
IsEnough(k) == LimitOf # NoLimit /\ last.merges[k].rows >= LimitOf
IsComplete(k) == ~last.merges[k].raw.nextLink

\* the executions (fetches) the last call made
Fetches == runs - last.first + 1

\* C11: a get whose remote calls all return a page returns, and does so
\* exactly at the first page after which is_enough or is_complete holds:
\* one of them holds after the last page merged, neither holds after an
\* earlier one, and there are as many fetches as pages merged (none after
\* that page).
C11_GetStopsAtFirstEnoughOrComplete ==
    last.op = "get"
        => /\ last.ok
           /\ last.merges # <<>>
           /\ Fetches = Len(last.merges)
           /\ \A k \in DOMAIN last.merges :
                 (IsEnough(k) \/ IsComplete(k)) <=> k = Len(last.merges)

\* C12: a get of a query with a limit L whose fetches all return a page
\* with nextLink returns after exactly as many fetches as it takes for the
\* rows of the pages fetched to number L or more, and its report has all
\* the rows of all these pages, those of the page that crosses L included.
C12_GetStopsAfterCrossingPage ==
    (/\ last.op = "get"
     /\ LimitOf # NoLimit
     /\ \A k \in DOMAIN last.merges : last.merges[k].raw.nextLink)
        => /\ last.ok
           /\ Fetches = Len(last.merges)
           /\ \A k \in DOMAIN last.merges :
                 Len(RowsOf(SubSeq(last.merges, 1, k))) >= LimitOf <=> k = Len(last.merges)
           /\ last.res.rows = RowsOf(last.merges)

\* C13 as stated: the report a get returns for a query with a limit L has
\* L or fewer rows.
C13_ReportWithinLimit ==
    (last.op = "get" /\ last.ok /\ LimitOf # NoLimit) => Len(last.res.rows) <= LimitOf

\* C13, amended: the report a get returns for a query with a limit L had
\* fewer than L rows before the last page fetched was merged into it; all
\* the rows of that page are in it, so it may have more than L rows.
C13_ReportBelowLimitBeforeLastPage ==
    (last.op = "get" /\ last.ok /\ LimitOf # NoLimit)
        => /\ \A k \in 1..(Len(last.merges) - 1) : last.merges[k].rows < LimitOf
           /\ Len(last.res.rows) = last.merges[Len(last.merges)].rows

\* a get with limit 3 and pages of 2 rows returned a report of 4 rows
C13_Witness ==
    /\ last.op = "get" /\ last.ok
    /\ LimitOf = 3
    /\ Len(last.merges) = 2
    /\ Len(last.res.rows) = 4

\* the wire parameters of the fetches of the last call, in order: those of
\* its remote calls and of its reads of the cache
Sent ==
    SelectSeq(log, LAMBDA event : event.ev \in {"call", "get"} /\ event.run >= last.first)

\* the wire parameters other than start_index
Others(raw) == {raw[n] : n \in {m \in DOMAIN raw : raw[m].k # "start_index"}}

\* C14, of next alone: the query next returns differs from its receiver
\* only in start_index, which is the receiver's start_index (1 when absent)
\* plus the receiver's max_results (1000 when absent).
C14_NextAddsPageSize ==
    (last.op = "next" /\ last.ok)
        => LET old == queries[last.recv]
               new == queries[last.res]
           IN  /\ new.meta = old.meta
               /\ Others(new.raw) = Others(old.raw)
               /\ Get(new.raw, "start_index").n =
                      GetOr(old.raw, "start_index", PyInt(DefaultStartIndex)).n
                      + GetOr(old.raw, "max_results", PyInt(DefaultMaxResults)).n

\* C14: the k-th fetch of a get on a query with start index s (1 when
\* absent) and page size p (1000 when absent) is sent with start_index
\* s + (k - 1) * p (the first with none, when the query has none), and all
\* fetches of the get are sent with the same other wire parameters.
C14_FetchesSentByOffset ==
    last.op = "get"
        => LET raw == queries[last.recv].raw
               start == GetOr(raw, "start_index", PyInt(DefaultStartIndex)).n
               size == GetOr(raw, "max_results", PyInt(DefaultMaxResults)).n
           IN  \A k \in DOMAIN Sent :
                  /\ GetOr(Sent[k].raw, "start_index", PyInt(DefaultStartIndex)).n
                         = start + (k - 1) * size
                  /\ Others(Sent[k].raw) = Others(Sent[1].raw)

-----------------------------------------------------------------------------
(* Validation.                                                             *)

\* C15: refine with a key that names neither a method of the query nor a
\* value of its report raises an error that names the key, and starts no
\* execution before it: no cache lookup, no wait, no remote call.
C15_UnknownMethodRaisesBeforeWire ==
    (last.op = "refine" /\ last.attribute \notin Methods \cup ReportAttributes)
        => /\ ~last.ok
           /\ last.err = "ValueError"
           /\ last.named = last.attribute
           /\ Fetches = 0

LastGroup(ref) == heap[ref][Len(heap[ref])]

\* the wire string `old` with one more group
Extended(old, key, group) ==
    IF Has(old, key) THEN Get(old, key).s \o ";" \o Join(",", group) ELSE Join(",", group)

\* C18: a successful filter (or segment) call returns a query whose wire
\* 'filters' (or 'segment') string is that of its receiver followed by
\* exactly one more group, the expressions of the call joined by ',',
\* the groups being joined by ';': n calls in a chain on a fresh query give
\* a string of n groups.
C18_OneMoreGroupPerCall ==
    /\ (last.op = "filter" /\ last.ok)
          => Get(queries[last.res].raw, "filters").s
                 = Extended(queries[last.recv].raw, "filters",
                            LastGroup(queries[last.res].meta.filters))
    /\ (last.op = "segment" /\ last.ok)
          => Get(queries[last.res].raw, "segment").s
                 = Extended(queries[last.recv].raw, "segment",
                            LastGroup(queries[last.res].meta.segments))

-----------------------------------------------------------------------------
(* Failures of the remote call.                                            *)

\* the remote calls of the last call of execute or get
CallsMade == SelectSeq(log, LAMBDA event : event.ev = "call" /\ event.run >= last.first)

\* C17: when a remote call of an execute, or of a get, raises, the call
\* ends with InvalidRequestError for a TypeError, GoogleAnalyticsError for
\* an error of the API, and the exception itself otherwise; the execution
\* made that one remote call, wrote nothing to the cache and returned no
\* report, and no execution follows it in the get.
C17_RemoteFailureSurfaced ==
    last.op \in {"execute", "get"}
        => \A n \in DOMAIN CallsMade :
              CallsMade[n].error # ""
                  => /\ ~last.ok
                     /\ last.res = NoReport
                     /\ CallsMade[n].error = "TypeError" => last.err = "InvalidRequestError"
                     /\ CallsMade[n].error = "HttpError" => last.err = "GoogleAnalyticsError"
                     /\ CallsMade[n].error = "OSError" => last.err = "OSError"
                     /\ n = Len(CallsMade)
                     /\ CallsMade[n].run = runs
                     /\ \A m \in DOMAIN CallsMade : CallsMade[m].run = runs => m = n
                     /\ ~\E m \in DOMAIN log : log[m].ev = "set" /\ log[m].run = runs
                     /\ ~\E e \in api.stored : e.response.error # ""

\* the second remote call of a get raised
C17_Witness ==
    /\ last.op = "get"
    /\ Len(CallsMade) = 2
    /\ CallsMade[2].error # ""
    /\ api.cache

-----------------------------------------------------------------------------
(* Sort and precision.                                                     *)

\* the calls of sort whose arguments are all strings or Column objects
SortsOfColumns ==
    {a \in SortArgs : \A n \in DOMAIN a[1] : a[1][n].kind \in {"string", "column"}}

\* the entry of one argument: the identifier of the column, after '-' for a
\* string that starts with '-' or when the call has descending=True
SortEntry(column, option) ==
    IF column.kind = "string"
    THEN (IF column.dashes > 0 \/ option THEN "-" ELSE "") \o ColumnId(column.name)
    ELSE column.id

\* C19: a sort call with strings and Column objects in any order returns a
\* query whose wire 'sort' is the receiver's wire 'sort' entries followed
\* by one entry per argument, in order, each entry decided by its own
\* argument (and the descending flag) alone.
C19_SortEntriesPerArgument ==
    [][\A a \in SortsOfColumns :
          CallSort({a}, MaxChain)
              => /\ last'.ok
                 /\ Get(queries'[last'.res].raw, "sort").s
                        = Join(",", (IF Has(queries[last'.recv].raw, "sort")
                                     THEN <<Get(queries[last'.recv].raw, "sort").s>>
                                     ELSE <<>>)
                                    \o [n \in DOMAIN a[1] |-> SortEntry(a[1][n], a[2])])]_vars

\* C20: precision(0) and precision('HIGHER_PRECISION') return a query whose
\* samplingLevel is FASTER and HIGHER_PRECISION; precision(1), the level
\* DEFAULT, returns a query without samplingLevel, whatever the receiver.
C20_SamplingLevelOnlyWhenNotDefault ==
    [][/\ CallPrecision({PyInt(0)}, MaxQueries)
          => /\ last'.ok
             /\ Get(queries'[last'.res].raw, "samplingLevel") = PyStr("FASTER")
       /\ CallPrecision({PyStr("HIGHER_PRECISION")}, MaxQueries)
          => /\ last'.ok
             /\ Get(queries'[last'.res].raw, "samplingLevel") = PyStr("HIGHER_PRECISION")
       /\ CallPrecision({PyInt(1)}, MaxQueries)
          => /\ last'.ok
             /\ ~Has(queries'[last'.res].raw, "samplingLevel")]_vars

-----------------------------------------------------------------------------
(* Precision and granularity values.                                       *)

\* the call q.interval(g) on some query
IntervalCall(g) ==
    \E i \in Receivers(MaxQueries) :
        Returns("interval", i, immutable(LAMBDA s, q : interval(s, q, g), Store, i))

\* the call raised the validation error and changed nothing
Rejected ==
    /\ ~last'.ok
    /\ last'.err = "ValueError"
    /\ queries' = queries
    /\ heap' = heap

\* C21: precision with an integer outside 0..2 or an unknown name, and
\* interval with an integer outside the table or an unknown name, raise
\* ValueError and leave every query as it was; the levels 0, 1 and
\* HIGHER_PRECISION and the granularities 0, day and lifetime are accepted.
C21_InvalidLevelsRejected ==
    [][/\ \A p \in {PyInt(3), PyStr("EXACT")} : CallPrecision({p}, MaxQueries) => Rejected
       /\ \A g \in {PyInt(5), PyStr("decade")} : IntervalCall(g) => Rejected
       /\ \A p \in {PyInt(0), PyInt(1), PyStr("HIGHER_PRECISION")} :
             CallPrecision({p}, MaxQueries) => last'.ok
       /\ \A g \in {PyInt(0), PyStr("day"), PyStr("lifetime")} :
             IntervalCall(g) => last'.ok]_vars

-----------------------------------------------------------------------------
(* The granularity shortcuts.                                              *)

\* the granularity dimension of every shortcut
ShortcutDimension ==
    [yearly |-> "ga:year", monthly |-> "ga:yearMonth", weekly |-> "ga:yearWeek",
     daily |-> "ga:date", hourly |-> "ga:dateHour"]

\* the dimensions of a query
DimensionsOf(q) == Get(q.raw, "dimensions").l

\* the query has the dates of range('2020-01-01', '2020-01-31')
HasJanuary(q) ==
    /\ Get(q.raw, "start_date") = PyStr("2020-01-01")
    /\ Get(q.raw, "end_date") = PyStr("2020-01-31")

\* C22: a granularity shortcut returns a query whose dimensions are the
\* granularity dimension of the shortcut followed by the dimensions of the
\* receiver, with the dates of the range; lifetime returns a query with the
\* dimensions of the receiver and the dates of the range.
C22_ShortcutsPutGranularityFirst ==
    /\ last.op \in DOMAIN ShortcutDimension
          => /\ last.ok
             /\ DimensionsOf(queries[last.res])
                    = <<ShortcutDimension[last.op]>> \o DimensionsOf(queries[last.recv])
             /\ HasJanuary(queries[last.res])
    /\ last.op = "lifetime"
          => /\ last.ok
             /\ DimensionsOf(queries[last.res]) = DimensionsOf(queries[last.recv])
             /\ HasJanuary(queries[last.res])

\* a shortcut was called on a query that has dimensions
C22_Witness ==
    /\ last.op = "weekly"
    /\ last.ok
    /\ Len(DimensionsOf(queries[last.recv])) >= 2

-----------------------------------------------------------------------------
(* Limit and step.                                                         *)

\* the wire parameters other than those in `keys`
Except_(raw, keys) == {raw[n] : n \in {m \in DOMAIN raw : raw[m].k \notin keys}}

\* the query returned has the cap `maximum`, the first row `start` and the
\* page size `maximum`, and is the receiver otherwise
Limited(start, maximum) ==
    LET old == queries[last'.recv]
        new == queries'[last'.res]
    IN  /\ last'.ok
        /\ new.meta = [old.meta EXCEPT !.limit = maximum]
        /\ Get(new.raw, "start_index") = PyInt(start)
        /\ Get(new.raw, "max_results") = PyInt(maximum)
        /\ Except_(new.raw, {"start_index", "max_results"})
               = Except_(old.raw, {"start_index", "max_results"})

\* C23: limit(2) returns a query with cap 2, start_index 1 and max_results
\* 2; limit(3, 2) one with cap 2, start_index 3 and max_results 2; step(2)
\* one with max_results 2 and the cap and start_index of its receiver; and
\* a get of a query without a cap returns only after a page without
\* nextLink.
C23_LimitCapsStepDoesNot ==
    [][/\ CallLimit({<<2>>}, MaxDerived) => Limited(1, 2)
       /\ CallLimit({<<3, 2>>}, MaxDerived) => Limited(3, 2)
       /\ CallStep(MaxDerived)
             => LET old == queries[last'.recv]
                    new == queries'[last'.res]
                IN  /\ last'.ok
                    /\ new.meta = old.meta
                    /\ Get(new.raw, "max_results") = PyInt(2)
                    /\ Except_(new.raw, {"max_results"}) = Except_(old.raw, {"max_results"})
       /\ (last'.op = "get" /\ last'.ok /\ queries'[last'.recv].meta.limit = NoLimit)
             => \A k \in DOMAIN last'.merges :
                   last'.merges[k].raw.nextLink <=> k < Len(last'.merges)]_vars

\* a get of a query with a page size and no cap returned after two pages
C23_Witness ==
    /\ last.op = "get"
    /\ last.ok
    /\ LimitOf = NoLimit
    /\ Has(queries[last.recv].raw, "max_results")
    /\ Len(last.merges) = 2
    /\ Len(last.res.rows) = 4

-----------------------------------------------------------------------------
(* The selector compiler.                                                  *)

\* the (column, method, value) of a keyword mapping, key by key and value
\* by value
RECURSIVE Triples(_)
Triples(selection) ==
    IF selection = <<>> THEN <<>>
    ELSE LET key == Head(selection)
             values == IF key.values.t = "list" THEN key.values.l ELSE <<key.values.v>>
         IN  [n \in DOMAIN values |-> [column |-> key.column, method |-> key.method, value |-> values[n]]]
             \o Triples(Tail(selection))

\* the keyword mapping with every single value v written as [v]
Wrapped(selection) ==
    [n \in DOMAIN selection |->
        IF selection[n].values.t = "list" THEN selection[n]
        ELSE Key(selection[n].column, selection[n].method, ListOf(<<selection[n].values.v>>))]

\* C24: the expressions select compiles are one per (column, method, value)
\* in the order of the keys and of the values of each key, a key without a
\* method compiles to ==, and a key mapped to v compiles as the key mapped
\* to [v].
C24_OneExpressionPerValue ==
    (last.op = "select" /\ last.ok)
        => LET triples == Triples(last.selection)
           IN  /\ Len(last.res) = Len(triples)
               /\ \A n \in DOMAIN triples :
                     last.res[n] = ColumnId(triples[n].column)
                                     \o (IF triples[n].method = "" THEN "=="
                                         ELSE Selectors[triples[n].method])
                                     \o triples[n].value
               /\ last.res = select(Wrapped(last.selection)).selections

\* a mapping of a key with a method to one value and of a key without to
\* two values compiled to three expressions
C24_Witness ==
    /\ last.op = "select"
    /\ last.ok
    /\ Len(last.selection) = 2
    /\ last.selection[1] = Key("sessions", "gt", Scalar("10"))
    /\ last.selection[2] = Key("browser", "", ListOf(<<"Chrome", "Firefox">>))
    /\ last.res = <<"ga:sessions>10", "ga:browser==Chrome", "ga:browser==Firefox">>

-----------------------------------------------------------------------------
(* Segments from keyword selections.                                       *)

\* C25: a segment call with a keyword selection and no scope raises; with
\* a scope it appends one expression per compiled condition, which is
\* scope::condition::<condition> without a metric scope and
\* scope::condition::perHit|perSession|perUser::<condition> with the metric
\* scope hits, sessions or users.
C25_SegmentExpressionParts ==
    last.op = "segment"
        => IF last.scope = "" THEN ~last.ok /\ last.err = "ValueError"
           ELSE LET conditions == select(last.selection).selections
                    third == CASE last.metric_scope = "hits" -> "::perHit"
                               [] last.metric_scope = "sessions" -> "::perSession"
                               [] last.metric_scope = "users" -> "::perUser"
                               [] OTHER -> ""
                IN  /\ last.ok
                    /\ LastGroup(queries[last.res].meta.segments)
                           = [n \in DOMAIN conditions |->
                                 last.scope \o "::condition" \o third \o "::" \o conditions[n]]

\* a segment of sessions with the metric scope hits and two conditions
C25_Witness ==
    /\ last.op = "segment"
    /\ last.ok
    /\ last.scope = "sessions"
    /\ last.metric_scope = "hits"
    /\ LastGroup(queries[last.res].meta.segments)
           = <<"sessions::condition::perHit::ga:browser==Chrome",
               "sessions::condition::perHit::ga:browser==Firefox">>

-----------------------------------------------------------------------------
(* The pages a report records.                                             *)

\* C26: the report a get returns records the raw pages of all its fetches,
\* in fetch order (Report.append records the producing query along with
\* each raw page).
C26_ReportRecordsEveryPage ==
    (last.op = "get" /\ last.ok)
        => /\ Len(last.res.raw) = Fetches
           /\ last.res.raw = [k \in DOMAIN last.merges |-> last.merges[k].raw]

-----------------------------------------------------------------------------
(* Reading a signature.                                                    *)

\* C27: reading q.signature returns a digest, the one a read before it
\* returned and the one of a fresh clone of q, and leaves the wire
\* parameters of q as they were.
C27_SignatureIsPure ==
    [][\A i \in DOMAIN queries :
          ReadSignature(i)
             => /\ last'.ok
                /\ queries'[i].raw = queries[i].raw
                /\ (last.op = "signature" /\ last.recv = i) => last'.res = last.res
                /\ LET fresh == clone([qs |-> queries', heap |-> heap'], i)
                   IN  last'.res = signature(fresh.st.qs[fresh.self].raw).digest]_vars

-----------------------------------------------------------------------------
(* Lazy reports.                                                           *)

\* C28: once a read of q.report or q.rows has returned, the query holds a
\* report, and every later read of q.report or q.rows returns that report
\* and looks nothing up in the cache and calls nothing remote.
C28_FetchedAtMostOnce ==
    [][\A i \in DOMAIN queries :
          (last'.op \in Lazy /\ last'.recv = i /\ queries[i].report # NoReport)
             => /\ last'.ok
                /\ last'.res = queries[i].report
                /\ queries'[i].report = queries[i].report
                /\ runs' = runs
                /\ log' = log
                /\ api' = api]_vars

====
